---------------------------- MODULE Spec2Model ----------------------------
(***************************************************************************)
(* A model of script.py: the TimeZoneDB importer.                          *)
(*                                                                         *)
(*   extract_json, list_time_zone, get_time_zone_by_name  pure operators   *)
(*   get_time_zone_details                                the paced batch  *)
(*   log_error, populate_data, __main__                   the import run   *)
(*                                                                         *)
(* Time is counted in ticks of 1/TicksPerSecond seconds.  Python           *)
(* statements take no time; time passes in requests.get and in time.sleep. *)
(* Python integers are unbounded, TLC's are 32 bits wide: an integer of    *)
(* the program is a tuple <<sign, l3, l2, l1, l0>> of limbs in base 10^6.  *)
(***************************************************************************)
EXTENDS Integers, Sequences, FiniteSets, TLC

VARIABLES
    \* ---- one call of a fetch function (specification SpecFetch)
    transport,      \* what requests.get does: raises, or returns a response
    extracted,      \* what extract_json made of the response
    fetched,        \* what get_time_zone_by_name returned: <<json_result, error>>
    fpc,            \* position: "call", "extracted", "returned"
    \* ---- get_time_zone_details
    bpc,            \* position in the batch
    time_zones,     \* its argument time_zones
    rate_limit,     \* its argument rate_limit
    buffer,         \* its argument buffer
    now,            \* time.time(), in ticks
    start_time,     \* its local start_time
    zone_details,   \* its local zone_details
    errors,         \* its local errors
    i,              \* its local i
    batch_began,    \* history: the time the batch was called
    issued,         \* history: per request, its zone, time, outcome and list
    overruns,       \* by how many ticks a time.sleep may overrun, a set
    \* ---- populate_data and the database
    pc,             \* position in populate_data
    db,             \* the committed tables
    tx,             \* the tables as the open transaction sees them
    txn_start,      \* CURRENT_TIMESTAMP of the open transaction, -1: none open
    temp_time_table,
    temp_zone_details,
    time_zones_error,
    details_errors,
    TZDB_TIMEZONES_entries,
    TZDB_ZONE_DETAILS_entries,
    k,              \* index of the for loop being run
    runs,           \* history: processes started so far
    pre,            \* history: the committed tables when the run began
    commits,        \* history: connection.commit() calls of this run
    last_op,        \* history: the last database call of this run
    fetch_called,   \* history: get_time_zone_details was called in this run
    \* ---- the merge run twice (specification SpecMerge)
    mpc,
    merged1         \* the detail table after the first merge

fetchVars == <<transport, extracted, fetched, fpc>>
batchVars == <<bpc, time_zones, rate_limit, buffer, now, start_time,
               zone_details, errors, i, batch_began, issued, overruns>>
runVars   == <<pc, db, tx, txn_start, temp_time_table, temp_zone_details,
               time_zones_error, details_errors, TZDB_TIMEZONES_entries,
               TZDB_ZONE_DETAILS_entries, k, runs, pre, commits, last_op, fetch_called>>
mergeVars == <<mpc, merged1>>
vars      == <<fetchVars, batchVars, runVars, mergeVars>>

----------------------------------------------------------------------------
(* Bounds of the model. *)

MaxZones     == 2     \* zones in a zone list
MaxCallTicks == 2     \* longest remote call, in ticks
MaxRuns      == 2     \* processes started one after the other
MaxDetails   == 2     \* details handed to the merge of SpecMerge

----------------------------------------------------------------------------
(* Integers of the program.                                               *)

LimbBase == 10^6

BigZero == <<0, 0, 0, 0, 0>>

\* An integer of less than 32 bits
Big(n) ==
    LET m == IF n < 0 THEN 0 - n ELSE n
    IN  IF n = 0 THEN BigZero
        ELSE <<IF n < 0 THEN -1 ELSE 1, 0,
               (m \div LimbBase) \div LimbBase,
               (m \div LimbBase) % LimbBase, m % LimbBase>>

BigNeg(b) == <<0 - b[1], b[2], b[3], b[4], b[5]>>

\* b * m for a positive b and 0 < m <= 2000; b - 1 for a positive b whose
\* last limb is not 0
BigTimes(b, m) ==
    LET l0 == m * b[5]
        l1 == m * b[4] + (l0 \div LimbBase)
        l2 == m * b[3] + (l1 \div LimbBase)
        l3 == m * b[2] + (l2 \div LimbBase)
    IN  <<1, l3, l2 % LimbBase, l1 % LimbBase, l0 % LimbBase>>

BigPred(b) == <<b[1], b[2], b[3], b[4], b[5] - 1>>

----------------------------------------------------------------------------
(* JSON values and Python dicts.  A dict is a function on its keys.        *)

JNull   == [t |-> "null", n |-> BigZero, s |-> ""]
JStr(x) == [t |-> "str",  n |-> BigZero, s |-> x]
JNum(b) == [t |-> "num",  n |-> b,       s |-> ""]
JBool(b) == [t |-> IF b THEN "true" ELSE "false", n |-> BigZero, s |-> ""]

\* bool(v) of Python
Truthy(v) == CASE v.t = "null"  -> FALSE
               [] v.t = "false" -> FALSE
               [] v.t = "true"  -> TRUE
               [] v.t = "num"   -> v.n # BigZero
               [] v.t = "str"   -> v.s # ""

EmptyDict == [key \in {} |-> JNull]

\* d.get(key, default)
Get(d, key, default) == IF key \in DOMAIN d THEN d[key] ELSE default

\* d[key] = v
Put(d, key, v) == [x \in DOMAIN d \cup {key} |-> IF x = key THEN v ELSE d[x]]

\* Not a value: marks a key a payload leaves out
Absent == [t |-> "absent", n |-> BigZero, s |-> ""]

Dict(f) == [key \in {x \in DOMAIN f : f[x] # Absent} |-> f[key]]

----------------------------------------------------------------------------
(* The remote API: what one requests.get can do.                           *)

ContentTypes == {"absent", "text/html", "application/json", "application/json; charset=utf-8"}

\* 'application/json' in response.headers.get('Content-Type', {})
HasJsonContentType(ctype) ==
    ctype \in {"application/json", "application/json; charset=utf-8"}

Response(ok, reason, ctype, parses, payload) ==
    [ok |-> ok, reason |-> reason, ctype |-> ctype, parses |-> parses,
     payload |-> payload]

NoResponse == Response(FALSE, "", "absent", FALSE, EmptyDict)

Raises   == [raises |-> TRUE, response |-> NoResponse]
Gives(r) == [raises |-> FALSE, response |-> r]

----------------------------------------------------------------------------
(* extract_json                                                            *)

Raised == [raised |-> TRUE, json_result |-> EmptyDict, error |-> JStr("")]
Returned(json_result, error) ==
    [raised |-> FALSE, json_result |-> json_result, error |-> error]

extract_json(response) ==
    IF response.ok /\ ~response.parses
    THEN Raised                                  \* response.json() raises
    ELSE IF ~response.ok
            \/ Get(response.payload, "status", JNull) # JStr("OK")
    THEN IF ~HasJsonContentType(response.ctype)
         THEN Returned(EmptyDict, JStr(response.reason))
         ELSE IF ~response.parses
         THEN Raised                             \* response.json() raises
         ELSE Returned(EmptyDict,
                       Get(response.payload, "message",
                           JStr("No error message in response")))
    ELSE Returned(response.payload, JStr(""))

ScriptError == JStr("Python Script Error: exception")

----------------------------------------------------------------------------
(* list_time_zone                                                          *)

list_time_zone(t) ==
    IF t.raises THEN <<<< >>, ScriptError>>
    ELSE LET e == extract_json(t.response)
         IN  IF e.raised THEN <<<< >>, ScriptError>>
             ELSE <<Get(e.json_result, "zones", << >>), e.error>>

----------------------------------------------------------------------------
(* get_time_zone_by_name                                                   *)

\* 9223372036854775807
max_bigint_value == <<1, 9, 223372, 36854, 775807>>

FillBounds_only_absent(json_result) ==
    LET withStart ==
            IF json_result # EmptyDict /\ "zoneStart" \notin DOMAIN json_result
            THEN Put(json_result, "zoneStart", JNum(BigNeg(max_bigint_value)))
            ELSE json_result
    IN  IF withStart # EmptyDict /\ "zoneEnd" \notin DOMAIN withStart
        THEN Put(withStart, "zoneEnd", JNum(max_bigint_value))
        ELSE withStart

\* if json_result and not json_result.get('zoneStart'): ...; the same for
\* zoneEnd
FillBounds(json_result) ==
    LET withStart ==
            IF json_result # EmptyDict /\ ~Truthy(Get(json_result, "zoneStart", JNull))
            THEN Put(json_result, "zoneStart", JNum(BigNeg(max_bigint_value)))
            ELSE json_result
    IN  IF withStart # EmptyDict /\ ~Truthy(Get(withStart, "zoneEnd", JNull))
        THEN Put(withStart, "zoneEnd", JNum(max_bigint_value))
        ELSE withStart

get_time_zone_by_name(t) ==
    LET e == IF t.raises THEN Raised ELSE extract_json(t.response)
        json_result == IF e.raised THEN EmptyDict ELSE e.json_result
        error       == IF e.raised THEN ScriptError ELSE e.error
    IN  <<FillBounds(json_result), error>>

----------------------------------------------------------------------------
(* The responses the model draws.                                          *)

ZoneNames == {"Europe/Andorra", "America/New_York"}

ZoneStartSample == Big(1699164000)
ZoneEndSample   == Big(1710054000)
BeforeEpoch     == Big(-86400)

\* A /get-time-zone payload; Absent leaves a key out
DetailPayload(status, message, zone_name, zoneStart, zoneEnd) ==
    Dict([status      |-> status,
          message     |-> message,
          zoneName    |-> JStr(zone_name),
          zoneStart   |-> zoneStart,
          zoneEnd     |-> zoneEnd,
          countryCode |-> JStr("XX"),
          countryName |-> JStr("Country"),
          gmtOffset   |-> JNum(Big(7200)),
          dst         |-> JBool(FALSE)])

Statuses  == {Absent, JStr("OK"), JStr("FAILED")}
Messages  == {Absent, JNull, JStr(""), JStr("Invalid API key")}
Bounds    == {Absent, JNull, JNum(BigZero), JNum(ZoneStartSample),
              JNum(ZoneEndSample), JNum(BeforeEpoch)}
Reasons   == {"", "OK", "Not Found"}

\* Every response of the model, for one call of a fetch function
AllTransports ==
    {Raises}
    \cup {Gives(Response(ok, reason, ctype, FALSE, EmptyDict)) :
             ok \in BOOLEAN, reason \in Reasons, ctype \in ContentTypes}
    \cup {Gives(Response(ok, reason, ctype, TRUE,
                         DetailPayload(st, msg, "Europe/Andorra", zs, ze))) :
             ok \in BOOLEAN, reason \in Reasons,
             ctype \in {"text/html", "application/json"},
             st \in Statuses, msg \in Messages, zs \in Bounds, ze \in Bounds}

\* The call failed: no response, a transport status that is not ok, a body
\* that is not JSON, or a payload whose status is not "OK"
Failed(t) ==
    \/ t.raises
    \/ ~t.response.ok
    \/ ~t.response.parses
    \/ Get(t.response.payload, "status", JNull) # JStr("OK")

JsonOk(payload)     == Gives(Response(TRUE, "OK", "application/json", TRUE, payload))
JsonFailed(message) ==
    Gives(Response(TRUE, "OK", "application/json", TRUE,
                   Dict([status |-> JStr("FAILED"), message |-> message])))

\* The responses a run draws for the details of one zone
DetailTransports(zone_name) ==
    { JsonOk(DetailPayload(JStr("OK"), JStr(""), zone_name,
                           JNum(ZoneStartSample), JNum(ZoneEndSample))),
      JsonOk(DetailPayload(JStr("OK"), JStr(""), zone_name, JNum(BigZero), Absent)),
      JsonFailed(JStr("Invalid API key")),
      JsonFailed(JStr("")),
      Raises }

----------------------------------------------------------------------------
(* SpecFetch: one call of extract_json or of get_time_zone_by_name, on     *)
(* every response of the model.                                            *)

CallExtractJson ==
    /\ fpc = "call"
    /\ ~transport.raises
    /\ extracted' = extract_json(transport.response)
    /\ fpc' = "extracted"
    /\ UNCHANGED <<transport, fetched, batchVars, runVars, mergeVars>>

CallGetTimeZoneByName ==
    /\ fpc = "call"
    /\ fetched' = get_time_zone_by_name(transport)
    /\ fpc' = "returned"
    /\ UNCHANGED <<transport, extracted, batchVars, runVars, mergeVars>>

----------------------------------------------------------------------------
(* get_time_zone_details                                                   *)

Rates      == {1, 2}      \* rate_limit, requests per second
Buffers    == {0, 1}      \* buffer, seconds
Oversleeps == {0, 1}      \* ticks a time.sleep may sleep longer than asked

\* The least number of ticks per second in which every 1 / rate_limit is whole
TicksPerSecond ==
    CHOOSE t \in 1..6 : /\ \A r \in Rates : t % r = 0
                        /\ \A u \in 1..(t - 1) : \E r \in Rates : u % r # 0

\* A zone of the list: countryCode, countryName, zoneName, gmtOffset
ZoneSummary(zone_name) ==
    [countryCode |-> "XX", countryName |-> "Country",
     zoneName |-> zone_name, gmtOffset |-> 7200]

RECURSIVE SeqsUpTo(_, _)
SeqsUpTo(S, n) ==
    IF n = 0 THEN {<< >>}
    ELSE LET shorter == SeqsUpTo(S, n - 1)
         IN  shorter \cup {Append(q, x) : q \in shorter, x \in S}

\* The zone lists of the model: any order, a zone may be named twice
ZoneLists == SeqsUpTo({ZoneSummary(z) : z \in ZoneNames}, MaxZones)

time_per_request_no_buffer(rate, buf) == TicksPerSecond \div rate

time_per_request(rate, buf) == (TicksPerSecond \div rate) + buf * TicksPerSecond

\* time.sleep(time_per_request); start_time = time.time(); the empty lists
InitialSleep ==
    /\ bpc = "sleep"
    /\ \E over \in overruns :
          now' = now + time_per_request(rate_limit, buffer) + over
    /\ start_time' = now'
    /\ zone_details' = << >>
    /\ errors' = << >>
    /\ i' = 1
    /\ bpc' = "loop"
    /\ UNCHANGED <<time_zones, rate_limit, buffer, batch_began, issued,
                   overruns, fetchVars, runVars, mergeVars>>

\* One get_time_zone_by_name call of the loop, and where its result goes
Request ==
    /\ bpc = "loop"
    /\ i <= Len(time_zones)
    /\ LET zone_name == time_zones[i].zoneName
       IN  \E t \in DetailTransports(zone_name), d \in 0..MaxCallTicks :
             LET r           == get_time_zone_by_name(t)
                 zone_detail == r[1]
                 error       == r[2]
             IN  /\ IF Truthy(error)
                    THEN /\ errors' = Append(errors, error)
                         /\ UNCHANGED zone_details
                    ELSE /\ zone_details' = Append(zone_details, zone_detail)
                         /\ UNCHANGED errors
                 /\ issued' = Append(issued,
                                     [zone   |-> zone_name,
                                      at     |-> now,
                                      failed |-> Failed(t),
                                      to     |-> IF Truthy(error) THEN "errors"
                                                 ELSE "zone_details"])
                 /\ now' = now + d
    /\ i' = i + 1
    /\ bpc' = "pace"
    /\ UNCHANGED <<time_zones, rate_limit, buffer, start_time, batch_began,
                   overruns, fetchVars, runVars, mergeVars>>

\* The sleep for what is left of the spacing, and the new start_time
Pace ==
    /\ bpc = "pace"
    /\ LET elapsed_time == now - start_time
           spacing      == time_per_request(rate_limit, buffer)
       IN  IF elapsed_time < spacing
           THEN \E over \in overruns :
                  now' = now + (spacing - elapsed_time) + over
           ELSE now' = now
    /\ start_time' = now'
    /\ bpc' = "loop"
    /\ UNCHANGED <<time_zones, rate_limit, buffer, zone_details, errors, i,
                   batch_began, issued, overruns, fetchVars, runVars,
                   mergeVars>>

\* return zone_details, errors
BatchReturn ==
    /\ bpc = "loop"
    /\ i > Len(time_zones)
    /\ bpc' = "returned"
    /\ UNCHANGED <<time_zones, rate_limit, buffer, now, start_time,
                   zone_details, errors, i, batch_began, issued, overruns,
                   fetchVars, runVars, mergeVars>>

----------------------------------------------------------------------------
(* The database.  A table is the sequence of its rows, in insertion order. *)
(* db is what is committed; tx is what the connection's open transaction   *)
(* sees; a process that ends without commit leaves db as it was.           *)

EmptyTables == [timezones |-> << >>, details |-> << >>, errors |-> << >>]

\* CURRENT_TIMESTAMP: the time the transaction began, which is the time of
\* the first statement the connection executes
CurrentTimestamp == IF txn_start < 0 THEN now ELSE txn_start

\* log_error: INSERT INTO "TZDB_ERROR_LOG" ("ERROR_MESSAGE") VALUES (err)
log_error(tables, err) ==
    [tables EXCEPT !.errors = Append(@, [ERROR_MESSAGE |-> err])]

NoDataMessage == JStr("No data received from API. List query failed.")

SelectImportTime_clock == now

\* (SELECT import_time FROM temp_time_table)
SelectImportTime == temp_time_table[1].import_time

\* The row tzdb_timezones_query inserts for a zone of the list
TimezoneRow(row, import_time) ==
    [COUNTRYCODE |-> row.countryCode, COUNTRYNAME |-> row.countryName,
     ZONENAME |-> row.zoneName, GMTOFFSET |-> row.gmtOffset,
     IMPORT_DATE |-> import_time]

\* The keys temp_table_insert_query takes from a detail
DetailKeys == {"zoneName", "zoneStart", "zoneEnd", "countryCode",
               "countryName", "gmtOffset", "dst"}

\* The row temp_table_insert_query inserts for a detail
StagedRow(row, import_time) ==
    [ZONENAME |-> row["zoneName"], ZONESTART |-> row["zoneStart"],
     ZONEEND |-> row["zoneEnd"], COUNTRYCODE |-> row["countryCode"],
     COUNTRYNAME |-> row["countryName"], GMTOFFSET |-> row["gmtOffset"],
     DST |-> row["dst"], IMPORT_DATE |-> import_time]

\* a = b of SQL: never true of a NULL
SqlEq(a, b) == a.t # "null" /\ b.t # "null" /\ a = b

JoinOn_with_import_date(staged, kept) ==
    /\ SqlEq(staged.ZONENAME, kept.ZONENAME)
    /\ SqlEq(staged.ZONESTART, kept.ZONESTART)
    /\ SqlEq(staged.ZONEEND, kept.ZONEEND)
    /\ staged.IMPORT_DATE = kept.IMPORT_DATE

\* The ON condition of the LEFT JOIN
JoinOn(staged, kept) ==
    /\ SqlEq(staged.ZONENAME, kept.ZONENAME)
    /\ SqlEq(staged.ZONESTART, kept.ZONESTART)
    /\ SqlEq(staged.ZONEEND, kept.ZONEEND)

\* filtered_insert_query: the staged rows the LEFT JOIN leaves without a
\* partner (the partner's ZONENAME IS NULL), added to the detail table
filtered_insert(details, staged) ==
    details \o SelectSeq(staged,
                         LAMBDA r : \A j \in 1..Len(details) :
                                      ~JoinOn(r, details[j]))

----------------------------------------------------------------------------
(* populate_data, run by __main__ on a connection of its own.              *)

ListPayload(zones) ==
    [status |-> JStr("OK"), message |-> JStr(""), zones |-> zones]

\* The responses a run draws for the zone list
ListTransports ==
    {JsonOk(ListPayload(zones)) : zones \in ZoneLists}
    \cup { JsonOk(Dict([status |-> JStr("OK"), message |-> JStr("")])),
           JsonFailed(JStr("Invalid API key")),
           Gives(Response(FALSE, "", "text/html", FALSE, EmptyDict)),
           Raises }

\* The locals of a process that has not run yet, or has ended
NoLocals ==
    /\ temp_time_table' = << >>
    /\ temp_zone_details' = << >>
    /\ time_zones_error' = JStr("")
    /\ details_errors' = << >>
    /\ TZDB_TIMEZONES_entries' = << >>
    /\ TZDB_ZONE_DETAILS_entries' = << >>
    /\ k' = 1

NoBatch ==
    /\ bpc' = "idle"
    /\ time_zones' = << >>
    /\ rate_limit' = 1
    /\ buffer' = 1
    /\ start_time' = 0
    /\ zone_details' = << >>
    /\ errors' = << >>
    /\ i' = 1
    /\ batch_began' = 0
    /\ issued' = << >>
    /\ UNCHANGED overruns

\* __main__: psycopg2.connect, then populate_data up to its first call
Start ==
    /\ pc \in {"idle", "done", "crashed"}
    /\ runs < MaxRuns
    /\ runs' = runs + 1
    /\ pc' = "list"
    /\ tx' = db
    /\ txn_start' = -1
    /\ pre' = db
    /\ commits' = 0
    /\ last_op' = "none"
    /\ fetch_called' = FALSE
    /\ NoLocals
    /\ NoBatch
    /\ UNCHANGED <<db, now, fetchVars, mergeVars>>

\* time_zones, time_zones_error = list_time_zone()
ListTimeZone ==
    /\ pc = "list"
    /\ \E t \in ListTransports, d \in 0..MaxCallTicks :
          /\ TZDB_TIMEZONES_entries' = list_time_zone(t)[1]
          /\ time_zones_error' = list_time_zone(t)[2]
          /\ now' = now + d
    /\ pc' = "list_error"
    /\ UNCHANGED <<db, tx, txn_start, temp_time_table, temp_zone_details,
                   details_errors, TZDB_ZONE_DETAILS_entries, k, runs, pre,
                   commits, last_op, fetch_called,
                   bpc, time_zones, rate_limit, buffer, start_time,
                   zone_details, errors, i, batch_began, issued, overruns,
                   fetchVars, mergeVars>>

\* What every step of populate_data leaves alone
Elsewhere == UNCHANGED <<db, now, runs, pre, commits, fetchVars, mergeVars>>

BatchIdle == UNCHANGED <<bpc, time_zones, rate_limit, buffer, start_time,
                         zone_details, errors, i, batch_began, issued,
                         overruns>>

\* if time_zones_error: log_error(cursor, time_zones_error)
LogListError ==
    /\ pc = "list_error"
    /\ IF Truthy(time_zones_error)
       THEN /\ tx' = log_error(tx, time_zones_error)
            /\ txn_start' = CurrentTimestamp
            /\ last_op' = "execute"
       ELSE UNCHANGED <<tx, txn_start, last_op>>
    /\ pc' = "list_empty"
    /\ UNCHANGED <<temp_time_table, temp_zone_details, time_zones_error,
                   details_errors, TZDB_TIMEZONES_entries,
                   TZDB_ZONE_DETAILS_entries, k, fetch_called>>
    /\ Elsewhere /\ BatchIdle

NoData_truncating ==
    /\ pc = "list_empty"
    /\ TZDB_TIMEZONES_entries = << >>
    /\ tx' = [log_error(tx, NoDataMessage) EXCEPT !.timezones = << >>]
    /\ txn_start' = CurrentTimestamp
    /\ last_op' = "execute"
    /\ pc' = "commit_early"
    /\ UNCHANGED <<temp_time_table, temp_zone_details, time_zones_error,
                   details_errors, TZDB_TIMEZONES_entries,
                   TZDB_ZONE_DETAILS_entries, k, fetch_called>>
    /\ Elsewhere /\ BatchIdle

\* if not TZDB_TIMEZONES_entries: log_error(cursor, "No data ...")
NoData ==
    /\ pc = "list_empty"
    /\ TZDB_TIMEZONES_entries = << >>
    /\ tx' = log_error(tx, NoDataMessage)
    /\ txn_start' = CurrentTimestamp
    /\ last_op' = "execute"
    /\ pc' = "commit_early"
    /\ UNCHANGED <<temp_time_table, temp_zone_details, time_zones_error,
                   details_errors, TZDB_TIMEZONES_entries,
                   TZDB_ZONE_DETAILS_entries, k, fetch_called>>
    /\ Elsewhere /\ BatchIdle

\* cursor.close(); connection.commit(); return
CommitEarly ==
    /\ pc = "commit_early"
    /\ db' = tx
    /\ commits' = commits + 1
    /\ txn_start' = -1
    /\ last_op' = "commit"
    /\ pc' = "done"
    /\ UNCHANGED <<tx, temp_time_table, temp_zone_details, time_zones_error,
                   details_errors, TZDB_TIMEZONES_entries,
                   TZDB_ZONE_DETAILS_entries, k, fetch_called,
                   now, runs, pre, fetchVars, mergeVars>>
    /\ BatchIdle

\* CREATE TEMPORARY TABLE temp_time_table; INSERT INTO temp_time_table
\* DEFAULT VALUES
CreateTempTimeTable ==
    /\ pc = "list_empty"
    /\ TZDB_TIMEZONES_entries # << >>
    /\ temp_time_table' = <<[import_time |-> CurrentTimestamp]>>
    /\ txn_start' = CurrentTimestamp
    /\ last_op' = "execute"
    /\ pc' = "truncate"
    /\ UNCHANGED <<tx, temp_zone_details, time_zones_error,
                   details_errors, TZDB_TIMEZONES_entries,
                   TZDB_ZONE_DETAILS_entries, k, fetch_called>>
    /\ Elsewhere /\ BatchIdle

Truncate_committing ==
    /\ pc = "truncate"
    /\ tx' = [tx EXCEPT !.timezones = << >>]
    /\ db' = tx'
    /\ last_op' = "execute"
    /\ k' = 1
    /\ pc' = "insert_zones"
    /\ UNCHANGED <<txn_start, temp_time_table, temp_zone_details,
                   time_zones_error, details_errors, TZDB_TIMEZONES_entries,
                   TZDB_ZONE_DETAILS_entries, fetch_called,
                   now, runs, pre, commits, fetchVars, mergeVars>>
    /\ BatchIdle

\* TRUNCATE TABLE "TZDB_TIMEZONES"
Truncate ==
    /\ pc = "truncate"
    /\ tx' = [tx EXCEPT !.timezones = << >>]
    /\ last_op' = "execute"
    /\ k' = 1
    /\ pc' = "insert_zones"
    /\ UNCHANGED <<txn_start, temp_time_table, temp_zone_details,
                   time_zones_error, details_errors, TZDB_TIMEZONES_entries,
                   TZDB_ZONE_DETAILS_entries, fetch_called>>
    /\ Elsewhere /\ BatchIdle

\* for row in TZDB_TIMEZONES_entries: cursor.execute(tzdb_timezones_query, row)
InsertZone ==
    /\ pc = "insert_zones"
    /\ k <= Len(TZDB_TIMEZONES_entries)
    /\ tx' = [tx EXCEPT !.timezones =
                 Append(@, TimezoneRow(TZDB_TIMEZONES_entries[k], SelectImportTime))]
    /\ last_op' = "execute"
    /\ k' = k + 1
    /\ UNCHANGED <<pc, txn_start, temp_time_table, temp_zone_details,
                   time_zones_error, details_errors, TZDB_TIMEZONES_entries,
                   TZDB_ZONE_DETAILS_entries, fetch_called>>
    /\ Elsewhere /\ BatchIdle

\* get_time_zone_details(TZDB_TIMEZONES_entries) is called, with its defaults
CallBatch ==
    /\ pc = "insert_zones"
    /\ k > Len(TZDB_TIMEZONES_entries)
    /\ pc' = "fetching"
    /\ fetch_called' = TRUE
    /\ bpc' = "sleep"
    /\ time_zones' = TZDB_TIMEZONES_entries
    /\ rate_limit' = 1
    /\ buffer' = 1
    /\ batch_began' = now
    /\ issued' = << >>
    /\ UNCHANGED <<start_time, zone_details, errors, i, overruns>>
    /\ UNCHANGED <<tx, txn_start, temp_time_table, temp_zone_details,
                   time_zones_error, details_errors, TZDB_TIMEZONES_entries,
                   TZDB_ZONE_DETAILS_entries, k, last_op>>
    /\ Elsewhere

\* TZDB_ZONE_DETAILS_entries, details_errors = what the batch returned
TakeDetails ==
    /\ pc = "fetching"
    /\ bpc = "returned"
    /\ TZDB_ZONE_DETAILS_entries' = zone_details
    /\ details_errors' = errors
    /\ k' = 1
    /\ pc' = "log_details"
    /\ NoBatch
    /\ UNCHANGED <<tx, txn_start, temp_time_table, temp_zone_details,
                   time_zones_error, TZDB_TIMEZONES_entries, last_op,
                   fetch_called>>
    /\ Elsewhere

\* for d_error in details_errors: log_error(cursor, d_error)
LogDetailError ==
    /\ pc = "log_details"
    /\ k <= Len(details_errors)
    /\ tx' = log_error(tx, details_errors[k])
    /\ last_op' = "execute"
    /\ k' = k + 1
    /\ UNCHANGED <<pc, txn_start, temp_time_table, temp_zone_details,
                   time_zones_error, details_errors, TZDB_TIMEZONES_entries,
                   TZDB_ZONE_DETAILS_entries, fetch_called>>
    /\ Elsewhere /\ BatchIdle

\* CREATE TEMPORARY TABLE temp_zone_details AS SELECT ... WHERE 1=0
CreateStaging ==
    /\ pc = "log_details"
    /\ k > Len(details_errors)
    /\ temp_zone_details' = << >>
    /\ last_op' = "execute"
    /\ k' = 1
    /\ pc' = "stage"
    /\ UNCHANGED <<tx, txn_start, temp_time_table, time_zones_error,
                   details_errors, TZDB_TIMEZONES_entries,
                   TZDB_ZONE_DETAILS_entries, fetch_called>>
    /\ Elsewhere /\ BatchIdle

\* for row in TZDB_ZONE_DETAILS_entries:
\*     cursor.execute(temp_table_insert_query, row)
StageInsert ==
    /\ pc = "stage"
    /\ k <= Len(TZDB_ZONE_DETAILS_entries)
    /\ DetailKeys \subseteq DOMAIN TZDB_ZONE_DETAILS_entries[k]
    /\ temp_zone_details' =
          Append(temp_zone_details,
                 StagedRow(TZDB_ZONE_DETAILS_entries[k], SelectImportTime))
    /\ last_op' = "execute"
    /\ k' = k + 1
    /\ UNCHANGED <<pc, tx, txn_start, temp_time_table, time_zones_error,
                   details_errors, TZDB_TIMEZONES_entries,
                   TZDB_ZONE_DETAILS_entries, fetch_called>>
    /\ Elsewhere /\ BatchIdle

\* The process ends without commit: the server rolls the transaction back
\* and drops the temporary tables
Abort ==
    /\ pc' = "crashed"
    /\ tx' = db
    /\ txn_start' = -1
    /\ NoLocals
    /\ NoBatch
    /\ UNCHANGED <<last_op, fetch_called>>
    /\ Elsewhere

\* cursor.execute(temp_table_insert_query, row) raises KeyError on a row
\* without one of the query's keys; nothing catches it
StageKeyError ==
    /\ pc = "stage"
    /\ k <= Len(TZDB_ZONE_DETAILS_entries)
    /\ ~(DetailKeys \subseteq DOMAIN TZDB_ZONE_DETAILS_entries[k])
    /\ Abort

\* cursor.execute(filtered_insert_query)
FilteredInsert ==
    /\ pc = "stage"
    /\ k > Len(TZDB_ZONE_DETAILS_entries)
    /\ tx' = [tx EXCEPT !.details = filtered_insert(@, temp_zone_details)]
    /\ last_op' = "execute"
    /\ pc' = "commit"
    /\ UNCHANGED <<txn_start, temp_time_table, temp_zone_details,
                   time_zones_error, details_errors, TZDB_TIMEZONES_entries,
                   TZDB_ZONE_DETAILS_entries, k, fetch_called>>
    /\ Elsewhere /\ BatchIdle

\* cursor.close(); connection.commit()
Commit ==
    /\ pc = "commit"
    /\ db' = tx
    /\ commits' = commits + 1
    /\ txn_start' = -1
    /\ last_op' = "commit"
    /\ pc' = "done"
    /\ UNCHANGED <<tx, temp_time_table, temp_zone_details, time_zones_error,
                   details_errors, TZDB_TIMEZONES_entries,
                   TZDB_ZONE_DETAILS_entries, k, fetch_called,
                   now, runs, pre, fetchVars, mergeVars>>
    /\ BatchIdle

\* The process is killed, or the connection is lost, before the commit
Crash ==
    /\ pc \notin {"idle", "done", "crashed"}
    /\ Abort

----------------------------------------------------------------------------
(* The merge of populate_data run twice on the same details (SpecMerge):   *)
(* the staging inserts and filtered_insert_query of two runs, one tick     *)
(* apart.                                                                  *)

\* The details a successful fetch can return
DetailSamples ==
    {r[1] : r \in {q \in {get_time_zone_by_name(t) :
                             t \in UNION {DetailTransports(z) : z \in ZoneNames}} :
                     ~Truthy(q[2]) /\ DetailKeys \subseteq DOMAIN q[1]}}

Merge ==
    /\ mpc \in {"first", "second"}
    /\ now' = now + 1
    /\ temp_time_table' = <<[import_time |-> now']>>
    /\ temp_zone_details' =
          [j \in 1..Len(TZDB_ZONE_DETAILS_entries) |->
             StagedRow(TZDB_ZONE_DETAILS_entries[j], now')]
    /\ tx' = [tx EXCEPT !.details = filtered_insert(@, temp_zone_details')]
    /\ merged1' = IF mpc = "first" THEN tx'.details ELSE merged1
    /\ mpc' = IF mpc = "first" THEN "second" ELSE "twice"
    /\ UNCHANGED <<pc, db, txn_start, time_zones_error, details_errors,
                   TZDB_TIMEZONES_entries, TZDB_ZONE_DETAILS_entries, k, runs,
                   pre, commits, last_op, fetch_called,
                   bpc, time_zones, rate_limit, buffer, start_time,
                   zone_details, errors, i, batch_began, issued, overruns,
                   fetchVars>>

----------------------------------------------------------------------------
(* The specifications.                                                     *)

FetchUnused ==
    /\ transport = Raises
    /\ extracted = Raised
    /\ fetched = <<EmptyDict, JStr("")>>
    /\ fpc = "unused"

BatchUnused ==
    /\ bpc = "idle"
    /\ time_zones = << >>
    /\ rate_limit = 1
    /\ buffer = 1
    /\ start_time = 0
    /\ zone_details = << >>
    /\ errors = << >>
    /\ i = 1
    /\ batch_began = 0
    /\ issued = << >>
    /\ overruns = {0}

RunUnused(position) ==
    /\ pc = position
    /\ db = EmptyTables
    /\ tx = EmptyTables
    /\ txn_start = -1
    /\ temp_time_table = << >>
    /\ temp_zone_details = << >>
    /\ time_zones_error = JStr("")
    /\ details_errors = << >>
    /\ TZDB_TIMEZONES_entries = << >>
    /\ TZDB_ZONE_DETAILS_entries = << >>
    /\ k = 1
    /\ runs = 0
    /\ pre = EmptyTables
    /\ commits = 0
    /\ last_op = "none"
    /\ fetch_called = FALSE

MergeUnused ==
    /\ mpc = "unused"
    /\ merged1 = << >>

\* The import: processes run one after the other on an empty database
Init ==
    /\ RunUnused("idle")
    /\ now = 0
    /\ BatchUnused
    /\ FetchUnused
    /\ MergeUnused

Next ==
    \/ Start
    \/ ListTimeZone
    \/ LogListError
    \/ NoData
    \/ CommitEarly
    \/ CreateTempTimeTable
    \/ Truncate
    \/ InsertZone
    \/ CallBatch
    \/ InitialSleep
    \/ Request
    \/ Pace
    \/ BatchReturn
    \/ TakeDetails
    \/ LogDetailError
    \/ CreateStaging
    \/ StageInsert
    \/ StageKeyError
    \/ FilteredInsert
    \/ Commit
    \/ Crash

Spec == Init /\ [][Next]_vars

\* One call of get_time_zone_details, on every zone list, rate and buffer
InitBatch ==
    /\ bpc = "sleep"
    /\ time_zones \in ZoneLists
    /\ rate_limit \in Rates
    /\ buffer \in Buffers
    /\ now = 0
    /\ start_time = 0
    /\ zone_details = << >>
    /\ errors = << >>
    /\ i = 1
    /\ batch_began = 0
    /\ issued = << >>
    /\ overruns = Oversleeps
    /\ RunUnused("unused")
    /\ FetchUnused
    /\ MergeUnused

NextBatch == InitialSleep \/ Request \/ Pace \/ BatchReturn

SpecBatch == InitBatch /\ [][NextBatch]_vars

\* One call of extract_json or get_time_zone_by_name, on every response
InitFetch ==
    /\ transport \in AllTransports
    /\ extracted = Raised
    /\ fetched = <<EmptyDict, JStr("")>>
    /\ fpc = "call"
    /\ RunUnused("unused")
    /\ now = 0
    /\ BatchUnused
    /\ MergeUnused

NextFetch == CallExtractJson \/ CallGetTimeZoneByName

SpecFetch == InitFetch /\ [][NextFetch]_vars

\* The merge twice, on every detail table and every list of details
InitMerge ==
    /\ mpc = "first"
    /\ merged1 = << >>
    /\ pc = "unused"
    /\ db = EmptyTables
    /\ \E details \in SeqsUpTo({StagedRow(d, 0) : d \in DetailSamples}, MaxDetails) :
          tx = [EmptyTables EXCEPT !.details = details]
    /\ TZDB_ZONE_DETAILS_entries \in SeqsUpTo(DetailSamples, MaxDetails)
    /\ txn_start = -1
    /\ temp_time_table = << >>
    /\ temp_zone_details = << >>
    /\ time_zones_error = JStr("")
    /\ details_errors = << >>
    /\ TZDB_TIMEZONES_entries = << >>
    /\ k = 1
    /\ runs = 0
    /\ pre = EmptyTables
    /\ commits = 0
    /\ last_op = "none"
    /\ fetch_called = FALSE
    /\ now = 0
    /\ BatchUnused
    /\ FetchUnused

NextMerge == Merge

SpecMerge == InitMerge /\ [][NextMerge]_vars

----------------------------------------------------------------------------
(* The claims.                                                             *)

EarlyExit == pc \in {"commit_early", "done"} /\ TZDB_TIMEZONES_entries = << >>

\* C1, as stated: when list_time_zone returns an empty zone list, the run
\* writes exactly one row to the error log, writes no row to the summary and
\* detail tables and leaves them as they were, and ends without calling
\* get_time_zone_details.
C1_ExactlyOneErrorRow ==
    /\ EarlyExit => /\ tx.timezones = pre.timezones
                    /\ tx.details = pre.details
                    /\ ~fetch_called
    /\ (EarlyExit /\ pc = "done") =>
          /\ Len(db.errors) = Len(pre.errors) + 1
          /\ db.timezones = pre.timezones
          /\ db.details = pre.details

\* C1, amended: when list_time_zone returns an empty zone list, the run
\* appends to the error log the list error, if list_time_zone returned a
\* non-empty one, and then the "no data" row (one or two rows), writes no
\* row to the summary and detail tables and leaves them as they were, and
\* ends without calling get_time_zone_details.
C1_OneOrTwoErrorRows ==
    /\ EarlyExit => /\ tx.timezones = pre.timezones
                    /\ tx.details = pre.details
                    /\ ~fetch_called
    /\ (EarlyExit /\ pc = "done") =>
          /\ db.errors =
                pre.errors
                \o (IF Truthy(time_zones_error)
                    THEN <<[ERROR_MESSAGE |-> time_zones_error]>> ELSE << >>)
                \o <<[ERROR_MESSAGE |-> NoDataMessage]>>
          /\ db.timezones = pre.timezones
          /\ db.details = pre.details

\* A run over a database that holds an earlier import ends early, having
\* logged the list error and the "no data" row
C1_Witness ==
    /\ EarlyExit /\ pc = "done"
    /\ Truthy(time_zones_error)
    /\ pre.timezones # << >>
    /\ pre.details # << >>
    /\ Len(db.errors) = Len(pre.errors) + 2

SameTriple(a, b) ==
    /\ a.ZONENAME = b.ZONENAME
    /\ a.ZONESTART = b.ZONESTART
    /\ a.ZONEEND = b.ZONEEND

\* C2: after any sequence of runs the committed detail table holds no two
\* rows with the same (zoneName, zoneStart, zoneEnd).
C2_NoDuplicateTriples ==
    \A a, b \in 1..Len(db.details) :
        a # b => ~SameTriple(db.details[a], db.details[b])

\* C3: the detail table after the second of two merges of the same details
\* equals the table after the first.
C3_MergeIdempotent == mpc = "twice" => tx.details = merged1

\* Both merges ran, on a table that held rows, and the first added rows
C3_Witness ==
    /\ mpc = "twice"
    /\ \E j \in 1..Len(merged1) : merged1[j].IMPORT_DATE = 0
    /\ \E j \in 1..Len(merged1) : merged1[j].IMPORT_DATE = 1

\* C4: the batch issues one request per input zone, in input order, and a
\* failed zone goes to the error list only, a succeeded one to the detail
\* list only, so that len(details) + len(errors) is the number of zones.
C4_EveryZoneRoutedOnce ==
    bpc = "returned" =>
        /\ Len(issued) = Len(time_zones)
        /\ \A j \in 1..Len(issued) :
              /\ issued[j].zone = time_zones[j].zoneName
              /\ issued[j].failed => issued[j].to = "errors"
              /\ ~issued[j].failed => issued[j].to = "zone_details"
        /\ Len(errors) = Cardinality({j \in 1..Len(issued) : issued[j].failed})
        /\ Len(zone_details) + Len(errors) = Len(time_zones)

\* C5: every request is issued at least 1/R + B seconds after the one before
\* it (the first, after the batch began), and the whole batch over N zones
\* takes at least N * (1/R + B) seconds.  In ticks, multiplied by R.
C5_Spacing ==
    /\ \A j \in 1..Len(issued) :
          LET before == IF j = 1 THEN batch_began ELSE issued[j - 1].at
          IN  (issued[j].at - before) * rate_limit
                >= TicksPerSecond * (1 + buffer * rate_limit)
    /\ bpc = "returned" =>
          (now - batch_began) * rate_limit
            >= Len(time_zones) * TicksPerSecond * (1 + buffer * rate_limit)

\* The second request of a batch has come back after a call longer than the
\* spacing; the first call was shorter and the batch slept out the spacing
C5_Witness ==
    /\ bpc = "pace"
    /\ Len(issued) = 2
    /\ issued[2].at - issued[1].at = time_per_request(rate_limit, buffer)
    /\ now - start_time > time_per_request(rate_limit, buffer)

\* The transport status is not ok, or the payload's status is not "OK"
NotOk(response) ==
    \/ ~response.ok
    \/ Get(response.payload, "status", JNull) # JStr("OK")

\* C6: for a response that is not ok, extract_json returns an empty result
\* and a non-empty error string.
C6_FailureGivesError ==
    (fpc = "extracted" /\ NotOk(transport.response) /\ ~extracted.raised) =>
        /\ extracted.json_result = EmptyDict
        /\ Truthy(extracted.error)

AbsentNullOrZero(d, key) ==
    \/ key \notin DOMAIN d
    \/ d[key] = JNull
    \/ d[key] = JNum(BigZero)

\* 2^63 = 1024^6 * 8
TwoTo63Minus1 ==
    BigPred(BigTimes(BigTimes(BigTimes(BigTimes(BigTimes(BigTimes(
        Big(1024), 1024), 1024), 1024), 1024), 1024), 8))

\* C7: in a non-empty result of get_time_zone_by_name, a zoneStart the API
\* left out, or gave as null or zero, is -(2^63-1), a zoneEnd it left out,
\* or gave as null or zero, is 2^63-1, and any other is the API's.
C7_BoundsFilled ==
    (fpc = "returned" /\ fetched[1] # EmptyDict) =>
        LET api == transport.response.payload
            got == fetched[1]
        IN  /\ {"zoneStart", "zoneEnd"} \subseteq DOMAIN got
            /\ got["zoneStart"] =
                  IF AbsentNullOrZero(api, "zoneStart")
                  THEN JNum(BigNeg(TwoTo63Minus1)) ELSE api["zoneStart"]
            /\ got["zoneEnd"] =
                  IF AbsentNullOrZero(api, "zoneEnd")
                  THEN JNum(TwoTo63Minus1) ELSE api["zoneEnd"]

\* A result whose zoneStart was zero and whose zoneEnd was the API's
C7_Witness ==
    /\ fpc = "returned"
    /\ fetched[1] # EmptyDict
    /\ "zoneStart" \in DOMAIN transport.response.payload
    /\ transport.response.payload["zoneStart"] = JNum(BigZero)
    /\ fetched[1]["zoneStart"] = JNum(<<-1, 9, 223372, 36854, 775807>>)
    /\ fetched[1]["zoneEnd"] = JNum(ZoneEndSample)

\* C8: a run commits once, as its last database call; until then the
\* committed tables are those the run found, so a run that ends without
\* commit leaves them as they were.
C8_SingleCommitAtEnd ==
    /\ pc # "done" => db = pre /\ commits = 0
    /\ pc = "done" => commits = 1 /\ last_op = "commit"

\* A run over a database that holds an earlier import crashed after it had
\* written, past the batch fetch
C8_Witness ==
    /\ pc = "crashed"
    /\ fetch_called
    /\ last_op = "execute"
    /\ pre.timezones # << >>
    /\ pre.details # << >>
    /\ db = pre

Stamped == pc \in {"truncate", "insert_zones", "fetching", "log_details",
                   "stage", "commit", "done"}
           /\ TZDB_TIMEZONES_entries # << >>

\* C9: the summary rows and the detail rows a run inserts all carry the one
\* import time the run captured before it inserted any.
C9_OneImportTime ==
    /\ pc # "unused" => Len(temp_time_table) <= 1
    /\ Stamped =>
          /\ Len(temp_time_table) = 1
          /\ pc # "truncate" =>
                \A j \in 1..Len(tx.timezones) :
                    tx.timezones[j].IMPORT_DATE = temp_time_table[1].import_time
          /\ \A j \in 1..Len(temp_zone_details) :
                temp_zone_details[j].IMPORT_DATE = temp_time_table[1].import_time
          /\ \A j \in (Len(pre.details) + 1)..Len(tx.details) :
                tx.details[j].IMPORT_DATE = temp_time_table[1].import_time

\* A run committed summary rows and new detail rows, the batch fetch having
\* taken time, beside detail rows of an earlier import
C9_Witness ==
    /\ Stamped /\ pc = "done"
    /\ db.timezones # << >>
    /\ pre.details # << >>
    /\ Len(db.details) > Len(pre.details)
    /\ now > temp_time_table[1].import_time
    /\ db.details[1].IMPORT_DATE # temp_time_table[1].import_time

\* C10: every element of the detail list is a non-empty record whose
\* zoneStart and zoneEnd are set and not zero.
C10_DetailsAreRecords ==
    \A j \in 1..Len(zone_details) :
        /\ zone_details[j] # EmptyDict
        /\ Truthy(Get(zone_details[j], "zoneStart", JNull))
        /\ Truthy(Get(zone_details[j], "zoneEnd", JNull))

=============================================================================
